---- MODULE Spec2Model ----
(***************************************************************************)
(* Model of the box-score scraper (extract/scraper.py, scrape_nba_stats)   *)
(* and of the part of the pipeline entry point that calls it (main.py).    *)
(*                                                                         *)
(* Text is modelled as a sequence of one-character strings, so that the    *)
(* trimming of cell text, int() and str() are computed and not assumed.    *)
(***************************************************************************)
EXTENDS Integers, Sequences, FiniteSets, TLC

(***************************************************************************)
(* Bounds of the model.                                                    *)
(***************************************************************************)
\* largest number of result pages the site serves for one season
MaxPages == 3
\* largest number of rows after the first row of a table in the row-parsing
\* specification
MaxRows == 2

(***************************************************************************)
(* Text: characters, trimming, int() and str().                            *)
(***************************************************************************)
DigitChars == <<"0", "1", "2", "3", "4", "5", "6", "7", "8", "9">>

IsDigit(c) == \E i \in 1..10 : DigitChars[i] = c

DigitValue(c) == (CHOOSE i \in 1..10 : DigitChars[i] = c) - 1

IsSpace(c) == c = " "

\* text with the leading white space removed
RECURSIVE LStrip(_)
LStrip(s) ==
    IF s # <<>> /\ IsSpace(Head(s)) THEN LStrip(Tail(s)) ELSE s

\* text with the trailing white space removed
RECURSIVE RStrip(_)
RStrip(s) ==
    IF s # <<>> /\ IsSpace(s[Len(s)]) THEN RStrip(SubSeq(s, 1, Len(s) - 1)) ELSE s

\* tag.get_text(strip=True) of a cell holding one text node
GetTextStrip(s) == RStrip(LStrip(s))

\* the digits of an int() literal: digits, single underscores only between
\* two digits
IsDigitRun(s) ==
    /\ s # <<>>
    /\ IsDigit(s[1])
    /\ IsDigit(s[Len(s)])
    /\ \A i \in 1..Len(s) :
          \/ IsDigit(s[i])
          \/ s[i] = "_" /\ i > 1 /\ i < Len(s) /\ IsDigit(s[i - 1]) /\ IsDigit(s[i + 1])

RECURSIVE DigitRunValue(_, _)
DigitRunValue(s, acc) ==
    IF s = <<>> THEN acc
    ELSE IF Head(s) = "_" THEN DigitRunValue(Tail(s), acc)
    ELSE DigitRunValue(Tail(s), 10 * acc + DigitValue(Head(s)))

ValueError == "ValueError"
IndexError == "IndexError"

\* int(text) of Python: white space around the literal is ignored, one
\* optional sign, then the digits; anything else raises ValueError.  The
\* result is [raises, value]; value is meaningful when raises = "none".
PyInt(text) ==
    LET s == GetTextStrip(text)
        signed == s # <<>> /\ Head(s) \in {"+", "-"}
        body == IF signed THEN Tail(s) ELSE s
    IN  IF ~IsDigitRun(body) THEN [raises |-> ValueError, value |-> 0]
        ELSE IF signed /\ Head(s) = "-"
             THEN [raises |-> "none", value |-> 0 - DigitRunValue(body, 0)]
        ELSE [raises |-> "none", value |-> DigitRunValue(body, 0)]

\* str(n) of Python for a natural number
RECURSIVE NatToText(_)
NatToText(n) ==
    IF n < 10 THEN <<DigitChars[n + 1]>>
    ELSE NatToText(n \div 10) \o <<DigitChars[(n % 10) + 1]>>

(***************************************************************************)
(* Row extraction (scraper.py, lines 109-131).  A row is the sequence of   *)
(* the raw texts of its td cells; a row of th cells only has none.         *)
(***************************************************************************)
\* number of cells a record reads: columns[0] .. columns[6]
RequiredCells == 7

\* int() of the cell text without the "or 0"
IntOrZeroNoDefault(cell) == PyInt(GetTextStrip(cell))

\* int(columns[k].get_text(strip=True) or 0), as [raises, value]
IntOrZero(cell) ==
    LET text == GetTextStrip(cell)
    IN  IF text = <<>> THEN [raises |-> "none", value |-> 0] ELSE PyInt(text)

\* the first exception the record expression raises on these cells, in the
\* order the dictionary display evaluates its values, or "none"
RowError(columns) ==
    LET bad == {k \in 1..RequiredCells :
                   \/ Len(columns) < k
                   \/ k > 4 /\ IntOrZero(columns[k]).raises # "none"}
        first == CHOOSE k \in bad : \A j \in bad : k <= j
    IN  IF bad = {} THEN "none"
        ELSE IF Len(columns) < first THEN IndexError
        ELSE ValueError

\* the record built from the cells of a row (lines 118-127)
RowRecord(columns) ==
    [game_date   |-> GetTextStrip(columns[1]),
     player_name |-> GetTextStrip(columns[2]),
     team        |-> GetTextStrip(columns[3]),
     opponent    |-> GetTextStrip(columns[4]),
     points      |-> IntOrZero(columns[5]).value,
     rebounds    |-> IntOrZero(columns[6]).value,
     assists     |-> IntOrZero(columns[7]).value]

\* the rows without the slice: the first row is parsed like the others
DataRowsKeepsFirst(table) == table

\* stats_table.find_all('tr')[1:]
DataRows(table) == IF table = <<>> THEN <<>> ELSE Tail(table)

(***************************************************************************)
(* Configuration.                                                          *)
(***************************************************************************)
\* the configuration scrape_nba_stats assigns to config before any use of it
FixedConfig ==
    [nba_stats_url |-> "https://www.nba.com/stats/players/boxscores",
     seasons       |-> <<"2024-25">>,
     season_type   |-> "Regular Season"]

\* configurations the pipeline may load and pass to scrape_nba_stats
CallerConfigs ==
    {FixedConfig,
     [nba_stats_url |-> "https://www.nba.com/stats/players/boxscores",
      seasons       |-> <<"2023-24", "2024-25">>,
      season_type   |-> "Regular Season"],
     [nba_stats_url |-> "https://stats.example.org/boxscores",
      seasons       |-> <<"2022-23">>,
      season_type   |-> "Playoffs"]}

\* the argument used as it was passed in
EffectiveConfigKeepsArgument(arg) == arg

\* the configuration in force after the assignment of lines 38-42
EffectiveConfig(arg) == FixedConfig

\* config.get('seasons', [config.get('season')])
SeasonsOf(cfg) == cfg.seasons

(***************************************************************************)
(* The site: what the browser session renders.  A rendered page has a page *)
(* number, the number of result pages, a page-selector dropdown (absent,   *)
(* options "1".."T", or options "All","1".."T"), a Next control (absent,   *)
(* enabled, disabled) and, when hasTable, a results table: the sequence of *)
(* its tr rows.                                                            *)
(***************************************************************************)
PagerKinds == {"absent", "numbered", "withAll"}

TableKinds == {"three", "two", "bad", "static"}

PageNumbers(T) == [i \in 1..T |-> NatToText(i)]

\* the visible texts of the options of the page-selector dropdown
PagerOptions(kind, T) ==
    IF kind = "withAll" THEN <<<<"A", "l", "l">>>> \o PageNumbers(T)
    ELSE PageNumbers(T)

\* the text of the selected option: the page shown
SelectedText(st) == NatToText(st.page)

LAL == <<"L", "A", "L">>
BOS == <<"B", "O", "S">>
ABC == <<"a", "b", "c">>

\* a well-formed data row, row r of page p: padded rebounds, empty assists
GoodRow(p, r) ==
    <<<<"d">> \o NatToText(p), <<" ", "r">> \o NatToText(r), LAL, BOS,
      NatToText(p) \o NatToText(r), <<" ">> \o NatToText(r) \o <<" ">>, <<>>>>

\* a header row of th cells has no td cell
HeaderRow == <<>>

\* the tr rows of the tables the site serves on page p, by kind; the static
\* table has the same markup on every page
SiteTable(kind, p) ==
    CASE kind = "three"    -> <<HeaderRow, GoodRow(p, 1), GoodRow(p, 2), GoodRow(p, 3)>>
      [] kind = "two"      -> <<HeaderRow, GoodRow(p, 1), GoodRow(p, 2)>>
      [] kind = "bad"      -> <<HeaderRow, [GoodRow(p, 1) EXCEPT ![5] = ABC], GoodRow(p, 2)>>
      [] kind = "static"   -> <<HeaderRow, <<>>, GoodRow(0, 1)>>
      [] OTHER             -> <<>>

\* the tables the site may serve on page p
PageTables(p) == {SiteTable(kind, p) : kind \in TableKinds}

\* the pages a browser may render for page number p of T: the Next control is
\* disabled or absent on the last page, enabled or absent before it
Render(p, T) ==
    {[page |-> p, pages |-> T, pager |-> pk, next |-> nx, hasTable |-> TRUE, table |-> tb] :
        pk \in PagerKinds,
        nx \in (IF p >= T THEN {"absent", "disabled"} ELSE {"absent", "enabled"}),
        tb \in PageTables(p)}
    \cup
    {[page |-> p, pages |-> T, pager |-> pk, next |-> nx, hasTable |-> FALSE, table |-> <<>>] :
        pk \in PagerKinds,
        nx \in (IF p >= T THEN {"absent", "disabled"} ELSE {"absent", "enabled"})}

Unloaded ==
    [page |-> 0, pages |-> 0, pager |-> "absent", next |-> "absent",
     hasTable |-> FALSE, table |-> <<>>]

(***************************************************************************)
(* State.                                                                  *)
(***************************************************************************)
VARIABLES
    callerConfig,   \* the configuration main() loaded and passes in
    pc,             \* position in scrape_nba_stats, then in main
    config,         \* the local config
    driver,         \* "none", "live" or "quit"
    quitCalls,      \* number of calls of driver.quit()
    all_data,       \* the accumulated records
    seasonIdx,      \* index in seasons of the season of the for loop
    rows,           \* the rows of the page being parsed
    rowIdx,         \* index in rows of the row of the inner for loop
    exc,            \* the exception propagating out of the try block, or "none"
    result,         \* the value returned (when pc = "returned")
    site,           \* the page the browser session shows
    dropdownFound,  \* the page dropdown was located in the current advance
    seen,           \* the pages parsed so far: [season, page, table]
    attempted,      \* the seasons whose loop iteration has started
    ctxLog          \* how each season iteration ended: [season, reason]

vars == <<callerConfig, pc, config, driver, quitCalls, all_data, seasonIdx, rows,
          rowIdx, exc, result, site, dropdownFound, seen, attempted, ctxLog>>

Init ==
    /\ callerConfig \in CallerConfigs
    /\ pc = "entry"
    /\ config = callerConfig
    /\ driver = "none"
    /\ quitCalls = 0
    /\ all_data = <<>>
    /\ seasonIdx = 0
    /\ rows = <<>>
    /\ rowIdx = 0
    /\ exc = "none"
    /\ result = <<>>
    /\ site = Unloaded
    /\ dropdownFound = FALSE
    /\ seen = <<>>
    /\ attempted = <<>>
    /\ ctxLog = <<>>

(***************************************************************************)
(* scrape_nba_stats: set-up and tear-down.                                 *)
(***************************************************************************)
\* the try block without its finally clause
EscapeTargetNoFinally == "raised"

\* where an exception raised inside the try block of lines 57-176 goes: the
\* finally clause
EscapeTarget == "finally"

\* lines 32-48: logging, the assignment to config, the browser options
Configure ==
    /\ pc = "entry"
    /\ config' = EffectiveConfig(callerConfig)
    /\ pc' = "acquire"
    /\ UNCHANGED <<callerConfig, driver, quitCalls, all_data, seasonIdx, rows, rowIdx,
                   exc, result, site, dropdownFound, seen, attempted, ctxLog>>

\* lines 50-56: resolve the driver binary and start the browser; either may
\* raise, before the try block is entered
AcquireSession ==
    /\ pc = "acquire"
    /\ \/ /\ driver' = "live"
          /\ all_data' = <<>>
          /\ pc' = "navigate"
          /\ exc' = exc
       \/ /\ exc' = "SessionInit"
          /\ pc' = "raised"
          /\ UNCHANGED <<driver, all_data>>
    /\ UNCHANGED <<callerConfig, config, quitCalls, seasonIdx, rows, rowIdx, result,
                   site, dropdownFound, seen, attempted, ctxLog>>

\* driver.get with its failure swallowed: the season loop is entered on the
\* page that never loaded
NavigateFailureIgnored ==
    /\ pc = "navigate"
    /\ \/ /\ \E T \in 1..MaxPages : site' \in Render(1, T)
          /\ exc' = exc
       \/ /\ exc' = "Navigation"
          /\ site' = site
    /\ pc' = "season_loop"
    /\ UNCHANGED <<callerConfig, config, driver, quitCalls, all_data, seasonIdx, rows,
                   rowIdx, result, dropdownFound, seen, attempted, ctxLog>>

\* lines 57-61: driver.get of the configured URL
Navigate ==
    /\ pc = "navigate"
    /\ \/ /\ \E T \in 1..MaxPages : site' \in Render(1, T)
          /\ pc' = "season_loop"
          /\ exc' = exc
       \/ /\ exc' = "Navigation"
          /\ pc' = EscapeTarget
          /\ site' = site
    /\ UNCHANGED <<callerConfig, config, driver, quitCalls, all_data, seasonIdx, rows,
                   rowIdx, result, dropdownFound, seen, attempted, ctxLog>>

\* the tear-down with the pending exception swallowed: all_data is returned
\* whenever driver.quit raises nothing
FinallyReturnsAnyway ==
    /\ pc = "finally"
    /\ quitCalls' = quitCalls + 1
    /\ driver' = "quit"
    /\ \E quitRaises \in BOOLEAN :
          IF ~quitRaises
          THEN /\ pc' = "returned"
               /\ result' = all_data
               /\ exc' = exc
          ELSE /\ pc' = "raised"
               /\ result' = result
               /\ exc' = "QuitFailed"
    /\ UNCHANGED <<callerConfig, config, all_data, seasonIdx, rows, rowIdx, site,
                   dropdownFound, seen, attempted, ctxLog>>

\* lines 177-182: the finally clause quits the driver; then the pending
\* exception propagates, or all_data is returned
Finally ==
    /\ pc = "finally"
    /\ quitCalls' = quitCalls + 1
    /\ driver' = "quit"
    /\ \E quitRaises \in BOOLEAN :
          IF exc = "none" /\ ~quitRaises
          THEN /\ pc' = "returned"
               /\ result' = all_data
               /\ exc' = exc
          ELSE /\ pc' = "raised"
               /\ result' = result
               /\ exc' = IF quitRaises THEN "QuitFailed" ELSE exc
    /\ UNCHANGED <<callerConfig, config, all_data, seasonIdx, rows, rowIdx, site,
                   dropdownFound, seen, attempted, ctxLog>>

(***************************************************************************)
(* The loop over the seasons and the two selections.                       *)
(***************************************************************************)
\* continue or break of the season iteration: log how it ended, back to the
\* head of the for loop
EndContext(reason) ==
    /\ ctxLog' = Append(ctxLog, [season |-> SeasonsOf(config)[seasonIdx], reason |-> reason])
    /\ pc' = "season_loop"

\* lines 64-66: the head of the for loop
NextSeason ==
    /\ pc = "season_loop"
    /\ IF seasonIdx < Len(SeasonsOf(config))
       THEN /\ seasonIdx' = seasonIdx + 1
            /\ attempted' = Append(attempted, SeasonsOf(config)[seasonIdx + 1])
            /\ pc' = "select_season"
       ELSE /\ pc' = "finally"
            /\ UNCHANGED <<seasonIdx, attempted>>
    /\ UNCHANGED <<callerConfig, config, driver, quitCalls, all_data, rows, rowIdx, exc,
                   result, site, dropdownFound, seen, ctxLog>>

\* the season selection with the continue statements of its handlers left
\* out: after a failure the season-type selection is still run
SelectSeasonNoContinue ==
    /\ pc = "select_season"
    /\ \/ /\ \E T \in 1..MaxPages : site' \in Render(1, T)
          /\ ctxLog' = ctxLog
       \/ /\ ctxLog' = Append(ctxLog, [season |-> SeasonsOf(config)[seasonIdx],
                                        reason |-> "season_not_found"])
          /\ site' = site
    /\ pc' = "select_type"
    /\ UNCHANGED <<callerConfig, config, driver, quitCalls, all_data, seasonIdx, rows,
                   rowIdx, exc, result, dropdownFound, seen, attempted>>

\* lines 68-81: locate the season dropdown and select the season
SelectSeason ==
    /\ pc = "select_season"
    /\ \/ /\ \E T \in 1..MaxPages : site' \in Render(1, T)
          /\ pc' = "select_type"
          /\ ctxLog' = ctxLog
       \/ /\ EndContext("season_not_found")
          /\ site' = site
       \/ /\ EndContext("season_failed")
          /\ site' = site
    /\ UNCHANGED <<callerConfig, config, driver, quitCalls, all_data, seasonIdx, rows,
                   rowIdx, exc, result, dropdownFound, seen, attempted>>

\* lines 83-96: locate the season-type dropdown and select the season type
SelectSeasonType ==
    /\ pc = "select_type"
    /\ \/ /\ \E T \in 1..MaxPages : site' \in Render(1, T)
          /\ pc' = "read_page"
          /\ ctxLog' = ctxLog
       \/ /\ EndContext("type_not_found")
          /\ site' = site
       \/ /\ EndContext("type_failed")
          /\ site' = site
    /\ UNCHANGED <<callerConfig, config, driver, quitCalls, all_data, seasonIdx, rows,
                   rowIdx, exc, result, dropdownFound, seen, attempted>>

(***************************************************************************)
(* The pagination loop: parse the page, then decide the advance.           *)
(***************************************************************************)
\* reading the page without the break of line 107: a page without a table is
\* treated as a table without rows
ReadPageNoBreak ==
    /\ pc = "read_page"
    /\ \/ /\ seen' = Append(seen, [season |-> seasonIdx, page |-> site.page, table |-> site.table])
          /\ rows' = DataRows(site.table)
          /\ rowIdx' = 1
          /\ pc' = "rows"
          /\ UNCHANGED <<exc, ctxLog>>
       \/ /\ exc' = "PageSource"
          /\ pc' = EscapeTarget
          /\ UNCHANGED <<rows, rowIdx, seen, ctxLog>>
    /\ UNCHANGED <<callerConfig, config, driver, quitCalls, all_data, seasonIdx, result,
                   site, dropdownFound, attempted>>

\* lines 99-109: read the rendered markup and locate the table; reading
\* driver.page_source may raise, outside every inner handler
ReadPage ==
    /\ pc = "read_page"
    /\ \/ /\ site.hasTable
          /\ seen' = Append(seen, [season |-> seasonIdx, page |-> site.page, table |-> site.table])
          /\ rows' = DataRows(site.table)
          /\ rowIdx' = 1
          /\ pc' = "rows"
          /\ UNCHANGED <<exc, ctxLog>>
       \/ /\ ~site.hasTable
          /\ seen' = Append(seen, [season |-> seasonIdx, page |-> site.page, table |-> site.table])
          /\ EndContext("no_table")
          /\ UNCHANGED <<rows, rowIdx, exc>>
       \/ /\ exc' = "PageSource"
          /\ pc' = EscapeTarget
          /\ UNCHANGED <<rows, rowIdx, seen, ctxLog>>
    /\ UNCHANGED <<callerConfig, config, driver, quitCalls, all_data, seasonIdx, result,
                   site, dropdownFound, attempted>>

\* the list started afresh with the record
AccumulateReplaces(data, record) == <<record>>

\* a record that is already in the list is not appended again
AccumulateDeduplicates(data, record) ==
    IF \E i \in 1..Len(data) : data[i] = record THEN data ELSE Append(data, record)

\* the record put in front of the list
AccumulateInFront(data, record) == <<record>> \o data

\* line 128: all_data.append(record)
Accumulate(data, record) == Append(data, record)

\* lines 111-114: a row without td cells is passed over
SkipRow ==
    /\ pc = "rows"
    /\ rowIdx <= Len(rows)
    /\ rows[rowIdx] = <<>>
    /\ rowIdx' = rowIdx + 1
    /\ UNCHANGED <<callerConfig, pc, config, driver, quitCalls, all_data, seasonIdx, rows,
                   exc, result, site, dropdownFound, seen, attempted, ctxLog>>

\* lines 117-128: the record of a row is built and appended
AppendRecord ==
    /\ pc = "rows"
    /\ rowIdx <= Len(rows)
    /\ rows[rowIdx] # <<>>
    /\ RowError(rows[rowIdx]) = "none"
    /\ all_data' = Accumulate(all_data, RowRecord(rows[rowIdx]))
    /\ rowIdx' = rowIdx + 1
    /\ UNCHANGED <<callerConfig, pc, config, driver, quitCalls, seasonIdx, rows, exc,
                   result, site, dropdownFound, seen, attempted, ctxLog>>

\* a handler that catches ValueError only
CaughtRowErrorsValueOnly == {ValueError}

\* line 129: the exceptions the handler of the row catches
CaughtRowErrors == {IndexError, ValueError}

\* lines 117-131: building the record raises; a caught exception drops the
\* row and the loop continues, any other leaves the try block
DropRow ==
    /\ pc = "rows"
    /\ rowIdx <= Len(rows)
    /\ rows[rowIdx] # <<>>
    /\ RowError(rows[rowIdx]) # "none"
    /\ IF RowError(rows[rowIdx]) \in CaughtRowErrors
       THEN /\ rowIdx' = rowIdx + 1
            /\ UNCHANGED <<pc, exc>>
       ELSE /\ exc' = RowError(rows[rowIdx])
            /\ pc' = EscapeTarget
            /\ rowIdx' = rowIdx
    /\ UNCHANGED <<callerConfig, config, driver, quitCalls, all_data, seasonIdx, rows,
                   result, site, dropdownFound, seen, attempted, ctxLog>>

\* the for loop over the rows is exhausted: on to the advance
EndOfRows ==
    /\ pc = "rows"
    /\ rowIdx > Len(rows)
    /\ pc' = "advance"
    /\ UNCHANGED <<callerConfig, config, driver, quitCalls, all_data, seasonIdx, rows,
                   rowIdx, exc, result, site, dropdownFound, seen, attempted, ctxLog>>

\* line 148: current_page < total_pages
HasNextPage(current_page, total_pages) == current_page < total_pages

\* the next page number taken one too far
NextPageNumberSkips(current_page) == current_page + 2

\* line 149: next_page_number
NextPageNumber(current_page) == current_page + 1

\* Select.select_by_visible_text finds an option with this text
HasOption(options, text) == \E i \in 1..Len(options) : options[i] = text

\* lines 134-158 and 173-175: the dropdown strategy.  NoSuchElementException
\* raised anywhere in the try block enters the handler of line 157; any other
\* exception enters the handler of line 173.
DecideDropdown ==
    /\ pc = "advance"
    /\ LET options == PagerOptions(site.pager, site.pages)
           current == PyInt(SelectedText(site))
           total_pages == Len(options)
           next_text == NatToText(NextPageNumber(current.value))
       IN
       \/ \* find_element raises NoSuchElementException
          /\ site.pager = "absent"
          /\ dropdownFound' = FALSE
          /\ pc' = "button"
          /\ UNCHANGED <<site, ctxLog>>
       \/ \* the current page is below the total and the next one is selected
          /\ site.pager # "absent"
          /\ current.raises = "none"
          /\ HasNextPage(current.value, total_pages)
          /\ HasOption(options, next_text)
          /\ dropdownFound' = TRUE
          /\ site' \in Render(PyInt(next_text).value, site.pages)
          /\ pc' = "read_page"
          /\ ctxLog' = ctxLog
       \/ \* select_by_visible_text raises NoSuchElementException
          /\ site.pager # "absent"
          /\ current.raises = "none"
          /\ HasNextPage(current.value, total_pages)
          /\ ~HasOption(options, next_text)
          /\ dropdownFound' = TRUE
          /\ pc' = "button"
          /\ UNCHANGED <<site, ctxLog>>
       \/ \* the last page is reached
          /\ site.pager # "absent"
          /\ current.raises = "none"
          /\ ~HasNextPage(current.value, total_pages)
          /\ dropdownFound' = TRUE
          /\ EndContext("last_page")
          /\ site' = site
       \/ \* any other exception: a failing call, or int() of the option text
          /\ dropdownFound' \in {FALSE} \cup (IF site.pager # "absent" THEN {TRUE} ELSE {})
          /\ EndContext("pagination_error")
          /\ site' = site
    /\ UNCHANGED <<callerConfig, config, driver, quitCalls, all_data, seasonIdx, rows,
                   rowIdx, exc, result, seen, attempted>>

\* the class of the Next control is not looked at
MarkedDisabledIgnored(next) == FALSE

\* line 161: 'disabled' in next_button.get_attribute('class')
MarkedDisabled(next) == next = "disabled"

\* the button strategy without the handler of lines 170-172: an intercepted
\* click leaves the function
DecideButtonInterceptEscapes ==
    /\ pc = "button"
    /\ \/ /\ site.next = "absent"
          /\ EndContext("no_next")
          /\ UNCHANGED <<site, exc>>
       \/ /\ site.next # "absent"
          /\ MarkedDisabled(site.next)
          /\ EndContext("next_disabled")
          /\ UNCHANGED <<site, exc>>
       \/ /\ site.next # "absent"
          /\ ~MarkedDisabled(site.next)
          /\ site' \in Render(IF site.next = "enabled" THEN site.page + 1 ELSE site.page,
                               site.pages)
          /\ pc' = "read_page"
          /\ UNCHANGED <<ctxLog, exc>>
       \/ /\ site.next # "absent"
          /\ ~MarkedDisabled(site.next)
          /\ exc' = "ClickIntercepted"
          /\ pc' = EscapeTarget
          /\ UNCHANGED <<site, ctxLog>>
       \/ /\ exc' = "Advance"
          /\ pc' = EscapeTarget
          /\ UNCHANGED <<site, ctxLog>>
    /\ UNCHANGED <<callerConfig, config, driver, quitCalls, all_data, seasonIdx, rows,
                   rowIdx, result, dropdownFound, seen, attempted>>

\* lines 159-172: the button strategy, run inside the handler of line 157.  Its
\* try catches NoSuchElementException and ElementClickInterceptedException
\* only; the handler of line 173 belongs to the outer try and does not cover
\* it, so any other exception leaves the function.
DecideButton ==
    /\ pc = "button"
    /\ \/ /\ site.next = "absent"
          /\ EndContext("no_next")
          /\ UNCHANGED <<site, exc>>
       \/ /\ site.next # "absent"
          /\ MarkedDisabled(site.next)
          /\ EndContext("next_disabled")
          /\ UNCHANGED <<site, exc>>
       \/ \* the click goes through: an enabled control shows the next page, a
          \* disabled one leaves the page as it is
          /\ site.next # "absent"
          /\ ~MarkedDisabled(site.next)
          /\ site' \in Render(IF site.next = "enabled" THEN site.page + 1 ELSE site.page,
                               site.pages)
          /\ pc' = "read_page"
          /\ UNCHANGED <<ctxLog, exc>>
       \/ /\ site.next # "absent"
          /\ ~MarkedDisabled(site.next)
          /\ EndContext("click_intercepted")
          /\ UNCHANGED <<site, exc>>
       \/ \* any other exception: a failing call, or get_attribute giving None
          /\ exc' = "Advance"
          /\ pc' = EscapeTarget
          /\ UNCHANGED <<site, ctxLog>>
    /\ UNCHANGED <<callerConfig, config, driver, quitCalls, all_data, seasonIdx, rows,
                   rowIdx, result, dropdownFound, seen, attempted>>

(***************************************************************************)
(* main.py: what the pipeline does with the outcome of scrape_nba_stats.   *)
(* process_data and load_to_database are called in turn; each returns or   *)
(* raises.  Any exception inside the try block of main is caught and       *)
(* logged, and the stages after it are not run.                            *)
(***************************************************************************)
\* main.py lines 62-65: raw_data is bound to the returned list and handed to
\* process_data
MainTransform ==
    /\ pc = "returned"
    /\ pc' \in {"load", "failed"}
    /\ UNCHANGED <<callerConfig, config, driver, quitCalls, all_data, seasonIdx, rows,
                   rowIdx, exc, result, site, dropdownFound, seen, attempted, ctxLog>>

\* main.py lines 67-72: load_to_database, then the pipeline has finished
MainLoad ==
    /\ pc = "load"
    /\ pc' \in {"finished", "failed"}
    /\ UNCHANGED <<callerConfig, config, driver, quitCalls, all_data, seasonIdx, rows,
                   rowIdx, exc, result, site, dropdownFound, seen, attempted, ctxLog>>

\* main.py lines 59 and 74-75: an exception raised by scrape_nba_stats leaves
\* raw_data unbound and enters the handler of main
MainCatch ==
    /\ pc = "raised"
    /\ pc' = "failed"
    /\ UNCHANGED <<callerConfig, config, driver, quitCalls, all_data, seasonIdx, rows,
                   rowIdx, exc, result, site, dropdownFound, seen, attempted, ctxLog>>

Next ==
    \/ Configure
    \/ AcquireSession
    \/ Navigate
    \/ NextSeason
    \/ SelectSeason
    \/ SelectSeasonType
    \/ ReadPage
    \/ SkipRow
    \/ AppendRecord
    \/ DropRow
    \/ EndOfRows
    \/ DecideDropdown
    \/ DecideButton
    \/ Finally
    \/ MainTransform
    \/ MainLoad
    \/ MainCatch

Spec == Init /\ [][Next]_vars

(***************************************************************************)
(* Row extraction on its own: the program stands at the head of the loop   *)
(* over the rows of the first page of the first season, and the page is    *)
(* any table of the pool.                                                  *)
(***************************************************************************)
\* raw texts of a numeric cell
TextPool ==
    {<<>>, <<" ">>, <<"7">>, <<" ", "1", "2", " ">>, <<"0">>, <<"-", "5">>,
     <<"a", "b", "c">>, <<"7", ".", "5">>, <<"1", "_", "0">>}

\* rows: a well-formed row with one numeric cell replaced, its prefixes (a
\* row short of cells, down to none), and a row with a cell too many
RowPool ==
    {[GoodRow(1, 1) EXCEPT ![k] = t] : k \in 5..RequiredCells, t \in TextPool}
    \cup {SubSeq(GoodRow(1, 1), 1, n) : n \in 0..(RequiredCells - 1)}
    \cup {GoodRow(1, 1) \o <<ABC>>}

\* tables: a first row, then up to MaxRows rows of the pool
TablePool ==
    {<<h>> \o body : h \in {HeaderRow, GoodRow(1, 1)},
                     body \in UNION {[1..n -> RowPool] : n \in 0..MaxRows}}

InitParse ==
    /\ callerConfig = FixedConfig
    /\ pc = "rows"
    /\ config = EffectiveConfig(callerConfig)
    /\ driver = "live"
    /\ quitCalls = 0
    /\ all_data = <<>>
    /\ seasonIdx = 1
    /\ \E tb \in TablePool :
          /\ site = [page |-> 1, pages |-> 1, pager |-> "absent", next |-> "absent",
                     hasTable |-> TRUE, table |-> tb]
          /\ rows = DataRows(tb)
          /\ seen = <<[season |-> 1, page |-> 1, table |-> tb]>>
    /\ rowIdx = 1
    /\ exc = "none"
    /\ result = <<>>
    /\ dropdownFound = FALSE
    /\ attempted = <<SeasonsOf(FixedConfig)[1]>>
    /\ ctxLog = <<>>

NextParse ==
    \/ SkipRow
    \/ AppendRecord
    \/ DropRow
    \/ EndOfRows

SpecParse == InitParse /\ [][NextParse]_vars

(***************************************************************************)
(* Properties.                                                             *)
(***************************************************************************)
Last(q) == q[Len(q)]

\* the page numbers parsed in the iteration of season i, in order
RECURSIVE VisitedPages(_, _)
VisitedPages(q, i) ==
    IF q = <<>> THEN <<>>
    ELSE IF Head(q).season = i THEN <<Head(q).page>> \o VisitedPages(Tail(q), i)
    ELSE VisitedPages(Tail(q), i)

\* the season iteration has just ended for this reason
EndedWith(reason) ==
    /\ pc = "season_loop"
    /\ ctxLog # <<>>
    /\ Len(ctxLog) = seasonIdx
    /\ Last(ctxLog).reason = reason

\* C1: once the browser session is created, driver.quit is called exactly
\* once on every exit path (return or propagating exception), never before
\* the exit and never without a session.
C1_SessionReleasedOnce ==
    /\ quitCalls <= 1
    /\ driver = "none" => quitCalls = 0
    /\ driver = "live" => quitCalls = 0 /\ pc \notin {"returned", "raised"}
    /\ driver = "quit" => quitCalls = 1
    /\ (pc \in {"returned", "raised"} /\ exc # "SessionInit") => quitCalls = 1

\* an exception escaped the pagination loop and the session was released
C1_Witness ==
    /\ pc = "raised"
    /\ exc \in {"Advance", "PageSource"}
    /\ driver = "quit"
    /\ quitCalls = 1

\* a step that stays in the season loop, raises nothing, keeps the records
AdvanceStaysInContext ==
    /\ pc' \in {"advance", "button", "read_page", "season_loop"}
    /\ exc' = "none"
    /\ all_data' = all_data

\* C2 (as claimed): a step that decides the page advance never leaves the
\* season loop: whatever is raised, the step ends in ParsingPage, Done or
\* Aborted, no exception propagates and the collected rows are kept.
C2_AdvanceFailureStaysInContext ==
    [][(pc \in {"advance", "button"}) => AdvanceStaysInContext]_vars

\* C3 (as claimed): a run that returns has attempted exactly the seasons of
\* the configuration passed in, in list order.
C3_AttemptsCallerSeasons ==
    pc = "returned" => attempted = SeasonsOf(callerConfig)

\* C4 (as claimed): the button strategy is entered only when the page
\* dropdown was not located.
C4_ButtonOnlyWithoutDropdown ==
    pc = "button" => ~dropdownFound

DisabledNextFound ==
    /\ pc = "button"
    /\ site.next = "disabled"
    /\ pc' # EscapeTarget

\* such a step ends the context at once
EndsContextAtOnce ==
    /\ pc' = "season_loop"
    /\ Last(ctxLog').reason = "next_disabled"
    /\ seen' = seen
    /\ all_data' = all_data

\* the pages parsed in the current context are 1..k, and all the pages of
\* the season when a disabled Next control ended it
PagesInOrder ==
    seasonIdx > 0 =>
        LET v == VisitedPages(seen, seasonIdx)
        IN  /\ v = [i \in 1..Len(v) |-> i]
            /\ EndedWith("next_disabled") => Len(v) = site.pages

\* C6 (as claimed): the step that finds the Next control marked disabled is
\* followed by one more ParsingPage state.
C6_OneMoreParseAfterDisabled ==
    [][DisabledNextFound => pc' = "read_page"]_vars

\* C6 (amended): the step that finds the Next control marked disabled ends
\* the context in Done at once, with no further ParsingPage state; the pages
\* parsed in a context are 1..k, each once and in order, and a context ended
\* by a disabled Next control has parsed every page of the season.
C6_DisabledNextEndsContext ==
    [][DisabledNextFound => EndsContextAtOnce]_vars /\ []PagesInOrder

C6_Witness ==
    /\ EndedWith("next_disabled")
    /\ ~dropdownFound
    /\ VisitedPages(seen, seasonIdx) = <<1, 2>>

(***************************************************************************)
(* What the specification says of a row, stated without the definitions    *)
(* that model the code.                                                    *)
(***************************************************************************)
\* the text between its first and last characters that are not white space
TrimOf(t) ==
    LET ink == {i \in 1..Len(t) : t[i] # " "}
    IN  IF ink = {} THEN <<>>
        ELSE SubSeq(t, CHOOSE i \in ink : \A j \in ink : i <= j,
                       CHOOSE i \in ink : \A j \in ink : i >= j)

DecimalDigits == {"0", "1", "2", "3", "4", "5", "6", "7", "8", "9"}

DigitOf(c) ==
    CASE c = "0" -> 0 [] c = "1" -> 1 [] c = "2" -> 2 [] c = "3" -> 3 [] c = "4" -> 4
      [] c = "5" -> 5 [] c = "6" -> 6 [] c = "7" -> 7 [] c = "8" -> 8 [] c = "9" -> 9

UnsignedPart(t) == IF t # <<>> /\ t[1] \in {"+", "-"} THEN SubSeq(t, 2, Len(t)) ELSE t

\* an integer literal: an optional sign, then digits, which single
\* underscores may group
IsIntegerText(t) ==
    LET u == UnsignedPart(t)
    IN  /\ u # <<>>
        /\ \A i \in 1..Len(u) : u[i] \in DecimalDigits \cup {"_"}
        /\ u[1] # "_" /\ u[Len(u)] # "_"
        /\ \A i \in 1..(Len(u) - 1) : ~(u[i] = "_" /\ u[i + 1] = "_")

Pow10(n) == IF n = 0 THEN 1 ELSE IF n = 1 THEN 10 ELSE IF n = 2 THEN 100 ELSE 1000

RECURSIVE SumTo(_, _)
SumTo(f, n) == IF n = 0 THEN 0 ELSE f[n] + SumTo(f, n - 1)

\* the value of an integer literal of at most four digits
IntegerTextValue(t) ==
    LET d == SelectSeq(UnsignedPart(t), LAMBDA c : c # "_")
        n == Len(d)
        magnitude == SumTo([i \in 1..n |-> DigitOf(d[i]) * Pow10(n - i)], n)
    IN  IF t[1] = "-" THEN 0 - magnitude ELSE magnitude

\* the value of a numeric field: 0 for an empty text, else the literal's
FieldValue(t) == IF t = <<>> THEN 0 ELSE IntegerTextValue(t)

NumericCells == {5, 6, 7}

\* a row the specification keeps: all seven cells, numeric cells empty or
\* integer literals
ValidRow(cells) ==
    /\ Len(cells) >= 7
    /\ \A k \in NumericCells : TrimOf(cells[k]) = <<>> \/ IsIntegerText(TrimOf(cells[k]))

ExpectedRecord(cells) ==
    [game_date   |-> TrimOf(cells[1]),
     player_name |-> TrimOf(cells[2]),
     team        |-> TrimOf(cells[3]),
     opponent    |-> TrimOf(cells[4]),
     points      |-> FieldValue(TrimOf(cells[5])),
     rebounds    |-> FieldValue(TrimOf(cells[6])),
     assists     |-> FieldValue(TrimOf(cells[7]))]

\* the records of the valid rows among rows[from..], in document order
RECURSIVE ExpectedFrom(_, _)
ExpectedFrom(tb, from) ==
    IF from > Len(tb) THEN <<>>
    ELSE IF ValidRow(tb[from]) THEN <<ExpectedRecord(tb[from])>> \o ExpectedFrom(tb, from + 1)
    ELSE ExpectedFrom(tb, from + 1)

\* the records of the pages parsed, in the order they were parsed
RECURSIVE ExpectedOfPages(_)
ExpectedOfPages(q) ==
    IF q = <<>> THEN <<>>
    ELSE ExpectedFrom(Head(q).table, 2) \o ExpectedOfPages(Tail(q))

IsText(t) == \A i \in 1..Len(t) : t[i] \in STRING

\* C7 (as claimed): every accumulated record has exactly the seven keys, the
\* first four are texts and points, rebounds and assists are non-negative
\* integers.
C7_RecordsTyped ==
    \A i \in 1..Len(all_data) :
        /\ DOMAIN all_data[i] = {"game_date", "player_name", "team", "opponent",
                                 "points", "rebounds", "assists"}
        /\ IsText(all_data[i].game_date) /\ IsText(all_data[i].player_name)
        /\ IsText(all_data[i].team) /\ IsText(all_data[i].opponent)
        /\ all_data[i].points \in Nat
        /\ all_data[i].rebounds \in Nat
        /\ all_data[i].assists \in Nat

\* the row loop processes a row that has all seven cells
FullRowStep ==
    /\ pc = "rows"
    /\ rowIdx <= Len(rows)
    /\ Len(rows[rowIdx]) >= RequiredCells

\* what the step does with it: a non-empty non-numeric numeric cell drops the
\* row; otherwise one record is appended whose numeric fields are 0 for an
\* empty trimmed text and the integer value of the text otherwise
NumericCellsHonoured ==
    LET cells == rows[rowIdx]
        text == [k \in NumericCells |-> TrimOf(cells[k])]
    IN  /\ pc' = "rows"
        /\ rowIdx' = rowIdx + 1
        /\ IF \E k \in NumericCells : text[k] # <<>> /\ ~IsIntegerText(text[k])
           THEN all_data' = all_data
           ELSE /\ Len(all_data') = Len(all_data) + 1
                /\ SubSeq(all_data', 1, Len(all_data)) = all_data
                /\ Last(all_data').points = FieldValue(text[5])
                /\ Last(all_data').rebounds = FieldValue(text[6])
                /\ Last(all_data').assists = FieldValue(text[7])

\* C8: for a row with all its cells, each numeric field is 0 when the trimmed
\* text of its cell is empty and the integer value of the text when it is an
\* integer literal; a non-empty text that is no integer literal in any
\* numeric cell drops the whole row: nothing is appended.
C8_NumericDefaultOrDrop ==
    [][FullRowStep => NumericCellsHonoured]_vars

\* an empty points cell gave points = 0 and a row with "abc" was dropped
C8_Witness ==
    /\ pc = "rows"
    /\ rowIdx = 3
    /\ Len(rows[1]) = RequiredCells /\ rows[1][5] = <<>>
    /\ Len(rows[2]) = RequiredCells /\ rows[2][5] = ABC
    /\ Len(all_data) = 1
    /\ all_data[1].points = 0

\* the row loop processes a row with some but not all of the seven cells, or
\* with none
ShortRowStep ==
    /\ pc = "rows"
    /\ rowIdx <= Len(rows)
    /\ Len(rows[rowIdx]) < RequiredCells

\* the row is dropped, the loop goes on with the next row, nothing is raised
RowDroppedLoopContinues ==
    /\ all_data' = all_data
    /\ pc' = "rows"
    /\ rowIdx' = rowIdx + 1
    /\ exc' = "none"

\* the records so far are those of processed rows that have all seven cells
RecordsFromFullRows ==
    pc \in {"rows", "advance"} =>
        Len(all_data) <= Cardinality({i \in 1..Len(rows) : i < rowIdx /\ Len(rows[i]) >= RequiredCells})

\* C9: a data row with fewer than seven cells produces no record; the loop
\* continues with the next row of the page and no exception leaves it.
C9_ShortRowDropped ==
    [][ShortRowStep => RowDroppedLoopContinues]_vars /\ []RecordsFromFullRows

\* a short row was dropped and the row after it gave its record
C9_Witness ==
    /\ pc = "advance"
    /\ Len(rows) = 2
    /\ Len(rows[1]) \in 1..(RequiredCells - 1)
    /\ rows[2] = GoodRow(1, 1)
    /\ all_data = <<ExpectedRecord(rows[2])>>
    /\ exc = "none"

\* the record the specification expects of row r of page p
GoodRecord(p, r) ==
    [game_date   |-> <<"d">> \o PageNumbers(p)[p],
     player_name |-> <<"r">> \o PageNumbers(r)[r],
     team        |-> LAL,
     opponent    |-> BOS,
     points      |-> 10 * p + r,
     rebounds    |-> r,
     assists     |-> 0]

\* one season, two pages: three valid rows, then two
TwoPageExample ==
    <<[season |-> 1, page |-> 1, table |-> SiteTable("three", 1)],
      [season |-> 1, page |-> 2, table |-> SiteTable("two", 2)]>>

\* C10: the returned sequence is exactly the records of the valid data rows
\* of the pages parsed, in the order season, page, row; the two-page example
\* returns its five records in page-then-row order.
C10_ResultInDocumentOrder ==
    pc = "returned" =>
        /\ result = ExpectedOfPages(seen)
        /\ seen = TwoPageExample =>
              result = <<GoodRecord(1, 1), GoodRecord(1, 2), GoodRecord(1, 3),
                         GoodRecord(2, 1), GoodRecord(2, 2)>>

C10_Witness ==
    /\ pc = "returned"
    /\ seen = TwoPageExample
    /\ Len(ctxLog) = 1
    /\ ctxLog[1].reason = "last_page"
    /\ Len(result) = 5

\* the click on an enabled Next control is intercepted: the page stays as it
\* is and the exception is not one of the unexpected ones
ClickInterceptedStep ==
    /\ pc = "button"
    /\ site.next = "enabled"
    /\ site' = site
    /\ exc' # "Advance"

\* the context alone is aborted: back at the head of the season loop, nothing
\* raised, the records and the seasons attempted as they were
AbortsContextOnly ==
    /\ pc' = "season_loop"
    /\ Last(ctxLog').reason = "click_intercepted"
    /\ Len(ctxLog') = seasonIdx
    /\ exc' = "none"
    /\ all_data' = all_data
    /\ attempted' = attempted

\* what is returned is the accumulated list
ReturnsAccumulated == pc = "returned" => result = all_data

\* C11: an intercepted click on the Next control aborts the current season
\* context only: the rows collected so far stay, the run goes back to the
\* head of the season loop with nothing raised, and a run that returns,
\* returns the accumulated records.
C11_InterceptedClickAbortsContext ==
    [][ClickInterceptedStep => AbortsContextOnly]_vars /\ []ReturnsAccumulated

\* a run returned the two rows parsed before the click was intercepted
C11_Witness ==
    /\ pc = "returned"
    /\ Last(ctxLog).reason = "click_intercepted"
    /\ seen = <<[season |-> 1, page |-> 1, table |-> SiteTable("two", 1)]>>
    /\ result = <<GoodRecord(1, 1), GoodRecord(1, 2)>>

SkipReasons == {"season_not_found", "season_failed", "type_not_found", "type_failed"}

\* a selection step that ends the season iteration
SelectionFailsStep ==
    /\ pc \in {"select_season", "select_type"}
    /\ ctxLog' # ctxLog

\* the season is skipped: back at the head of the season loop, nothing
\* raised, nothing parsed, nothing appended
SeasonSkipped ==
    /\ pc' = "season_loop"
    /\ Last(ctxLog').reason \in SkipReasons
    /\ pc = "select_season" => Last(ctxLog').reason \in {"season_not_found", "season_failed"}
    /\ exc' = "none"
    /\ all_data' = all_data
    /\ seen' = seen

\* a skipped season has no parsed page, and the season-type selection is
\* reached only while no end of the current season is logged
SkippedSeasonsUnparsed ==
    /\ \A k \in 1..Len(ctxLog) :
          ctxLog[k].reason \in SkipReasons => VisitedPages(seen, k) = <<>>
    /\ pc = "select_type" => Len(ctxLog) < seasonIdx

\* C12: when the season or the season-type control is absent, or selecting in
\* either raises, the season is skipped: no page is parsed and no row added
\* for it, the season-type selection does not follow a failed season
\* selection, and the run goes on with the season loop, nothing raised.
C12_FailedSelectionSkipsSeason ==
    [][SelectionFailsStep => SeasonSkipped]_vars /\ []SkippedSeasonsUnparsed

\* a run skipped its season on the season-type control and returned nothing
C12_Witness ==
    /\ pc = "returned"
    /\ Len(ctxLog) = 1
    /\ ctxLog[1].reason = "type_not_found"
    /\ seen = <<>>
    /\ result = <<>>

\* the page read has no table element and reading it raised nothing
NoTableStep ==
    /\ pc = "read_page"
    /\ ~site.hasTable
    /\ pc' # EscapeTarget

\* the context is Done: no row added, no pagination control probed, the page
\* left as it is
DoneWithoutProbing ==
    /\ pc' = "season_loop"
    /\ Last(ctxLog').reason = "no_table"
    /\ all_data' = all_data
    /\ dropdownFound' = dropdownFound
    /\ site' = site
    /\ exc' = "none"

\* the row loop and the advance are only ever run on a page with a table
ProbesOnlyWithTable == pc \in {"rows", "advance", "button"} => site.hasTable

\* C13: a page without a table element ends the season context in Done: no
\* row of that page is appended, no pagination control is probed, and the
\* run is back at the head of the season loop.
C13_NoTableEndsContext ==
    [][NoTableStep => DoneWithoutProbing]_vars /\ []ProbesOnlyWithTable

\* the second page had no table: the rows of the first are all there is
C13_Witness ==
    /\ EndedWith("no_table")
    /\ Len(seen) = 2
    /\ ~site.hasTable
    /\ all_data = ExpectedFrom(seen[1].table, 2)
    /\ all_data # <<>>

IsPrefix(a, b) == Len(a) <= Len(b) /\ SubSeq(b, 1, Len(a)) = a

\* the accumulator before the try block is entered
EmptyAtStart == pc \in {"entry", "acquire", "navigate"} => all_data = <<>>

\* C14: the accumulator is empty at run start and every step leaves the
\* records it holds in place, unchanged and in order; it only ever grows at
\* its end.
C14_AccumulatorAppendOnly ==
    [][IsPrefix(all_data, all_data')]_vars /\ []EmptyAtStart

\* a row was dropped on page 1, then the context was aborted on page 2: the
\* records of both pages are there
C14_Witness ==
    /\ EndedWith("pagination_error")
    /\ Len(seen) = 2
    /\ seen[1].table = SiteTable("bad", 1)
    /\ Len(all_data) = 3
    /\ all_data[1] = GoodRecord(1, 2)

\* the session exists and driver.get has been tried, and no page was loaded
NavigationFailed ==
    /\ driver # "none"
    /\ pc # "navigate"
    /\ site = Unloaded

\* C15: once the initial navigation has failed, the run is in its tear-down or
\* has failed as a whole: no season was attempted, no page read, no record
\* collected, nothing was returned to main, and neither the transform nor the
\* load stage is reached.
C15_NavigationFailureFailsRun ==
    NavigationFailed =>
        /\ pc \in {"finally", "raised", "failed"}
        /\ exc \in {"Navigation", "QuitFailed"}
        /\ seasonIdx = 0
        /\ attempted = <<>>
        /\ seen = <<>>
        /\ ctxLog = <<>>
        /\ all_data = <<>>
        /\ result = <<>>

\* the navigation failed, the driver was quit and main logged the failure
C15_Witness ==
    /\ pc = "failed"
    /\ site = Unloaded
    /\ exc = "Navigation"
    /\ driver = "quit"
    /\ quitCalls = 1
    /\ attempted = <<>>

\* the number of records the markup of the i-th page read gives
CountOf(q, i) == Len(ExpectedFrom(q[i].table, 2))

\* the number of records appended before the i-th page read
RECURSIVE OffsetOf(_, _)
OffsetOf(q, i) == IF i <= 1 THEN 0 ELSE OffsetOf(q, i - 1) + CountOf(q, i - 1)

\* the records the parse of the i-th page read appended
SegmentOf(q, i) == SubSeq(all_data, OffsetOf(q, i) + 1, OffsetOf(q, i) + CountOf(q, i))

\* C16: row extraction is a function of the markup: after the row loop of a
\* page, the list holds one segment of records for each page read, and two
\* pages with the same content have the same segment, whatever was
\* accumulated before them and whatever their season and page number.
C16_SameMarkupSameRecords ==
    pc = "advance" =>
        /\ Len(all_data) = OffsetOf(seen, Len(seen) + 1)
        /\ \A i, j \in 1..Len(seen) :
              seen[i].table = seen[j].table => SegmentOf(seen, i) = SegmentOf(seen, j)

\* pages 1 and 2 showed the same table: its record is there twice
C16_Witness ==
    /\ pc = "advance"
    /\ Len(seen) = 2
    /\ seen[1].page # seen[2].page
    /\ seen[1].table = seen[2].table
    /\ seen[1].table = SiteTable("static", 1)
    /\ Len(all_data) = 2
    /\ all_data[1] = all_data[2]

\* a step of the dropdown strategy on a dropdown that was located, other than
\* one ended by the handler of unexpected exceptions
DropdownStep ==
    /\ pc = "advance"
    /\ site.pager # "absent"
    /\ ~(ctxLog' # ctxLog /\ Last(ctxLog').reason = "pagination_error")

\* with c the page number of the selected option and t the number of options
DropdownStepAsClaimed ==
    LET c == site.page
        t == Len(PagerOptions(site.pager, site.pages))
    IN  /\ c < t => (pc' = "read_page" /\ site'.page = c + 1)
        /\ c = t => (pc' = "season_loop" /\ site' = site)
        /\ site' # site => (site'.page > c /\ site'.page <= t)

\* C17 (as claimed): in the dropdown strategy, with c the current page and t
\* the number of options, c < t selects the option c+1 and returns to
\* ParsingPage, c = t ends the context without a selection, and no page at or
\* below c or above t is ever selected.
C17_DropdownSelectsNextPage ==
    [][DropdownStep => DropdownStepAsClaimed]_vars

\* the rows the loop runs over are the rows of the table after the first
FirstRowSkippedByPosition ==
    pc \in {"rows", "advance"} =>
        /\ Len(rows) = Len(site.table) - 1
        /\ \A i \in 1..Len(rows) : rows[i] = site.table[i + 1]

\* after the row loop the records are those of the rows from the second on
RecordsFromSecondRowOn == pc = "advance" => all_data = ExpectedFrom(site.table, 2)

\* the row loop is at a row without data cells
EmptyRowStep ==
    /\ pc = "rows"
    /\ rowIdx <= Len(rows)
    /\ rows[rowIdx] = <<>>

\* the row loop is at a row with a data cell
CellRowStep ==
    /\ pc = "rows"
    /\ rowIdx <= Len(rows)
    /\ rows[rowIdx] # <<>>

\* the row is passed over without a record
PassedOver ==
    /\ all_data' = all_data
    /\ rowIdx' = rowIdx + 1
    /\ pc' = "rows"

\* the row is tried: it gives one record at the end of the list or none
TriedAsRecord ==
    /\ rowIdx' = rowIdx + 1
    /\ \/ all_data' = all_data
       \/ /\ Len(all_data') = Len(all_data) + 1
          /\ Last(all_data').game_date = TrimOf(rows[rowIdx][1])

PageSourceFailed == exc = "PageSource"

\* the run is in its tear-down or has failed; nothing was returned, and once
\* the tear-down is over the session was released once
RunEndsReleased ==
    PageSourceFailed =>
        /\ pc \in {"finally", "raised", "failed"}
        /\ result = <<>>
        /\ pc = "finally" => (quitCalls = 0 /\ driver = "live")
        /\ pc # "finally" => (quitCalls = 1 /\ driver = "quit")

\* the step on which reading the markup raises leaves the loops at once
LeavesLoopsAtOnce ==
    (pc = "read_page" /\ exc' = "PageSource") =>
        /\ pc' = "finally"
        /\ all_data' = all_data
        /\ ctxLog' = ctxLog

\* after the failure no season is attempted, no page read, no row parsed
NothingMoreAttempted ==
    PageSourceFailed =>
        /\ attempted' = attempted
        /\ seasonIdx' = seasonIdx
        /\ seen' = seen
        /\ all_data' = all_data
        /\ pc' \in {"raised", "failed"}

\* C20: a failure of reading the rendered markup is handled by nothing below
\* the run: the run leaves the loops at once, no further season is attempted,
\* the session is released once, and the records accumulated so far are not
\* returned to the caller.
C20_PageSourceFailureEndsRun ==
    /\ []RunEndsReleased
    /\ [][LeavesLoopsAtOnce]_vars
    /\ [][NothingMoreAttempted]_vars

\* page 1 gave its records, reading page 2 raised: the run failed with the
\* records unreturned and the driver quit once
C20_Witness ==
    /\ pc = "failed"
    /\ exc = "PageSource"
    /\ Len(seen) = 1
    /\ all_data = ExpectedFrom(seen[1].table, 2)
    /\ Len(all_data) = 3
    /\ result = <<>>
    /\ quitCalls = 1

====
